---- MODULE Spec2Model ----
(***************************************************************************)
(* Rolling-frontier task coordination of go-redis-work-queue's SLAPS       *)
(* tooling:                                                                *)
(*   - FileBasedSLAPSCoordinator (slaps_file_coordinator.py) and the       *)
(*     ClaudeWorker processes (claude_worker.py) over the mailbox tree;    *)
(*   - ResourceManager and SLAPSCoordinator (slaps_coordinator.py);        *)
(*   - DependencyManager (slaps_dependency_manager.py).                    *)
(* Directories are maps from file stem (task id) to file content.  The     *)
(* coordinator and every worker are separate processes: their steps        *)
(* interleave at the granularity of one filesystem operation (a listing,   *)
(* a rename, a write, an unlink).                                          *)
(***************************************************************************)
EXTENDS Integers, Sequences, FiniteSets, TLC

\* ------------------------------------------------------------------ bounds
NumWorkers == 2      \* worker identities modelled (the code creates 10 dirs)
MaxTicks == 2       \* iterations of the coordinator loop before the interrupt
MaxRetry == 1        \* operator approvals of a help request per entry
MaxRuns == 2         \* coordinator processes started over one mailbox tree
MaxLoops == 3        \* iterations of SLAPSCoordinator.run before the interrupt
CiRunners == 2       \* configured capacity of the shared_limited resource
MaxReq == 2          \* longest resource list passed to acquire / release
MaxPermits == 3      \* largest semaphore value explored
MaxDone == 1         \* tasks a worker of the wide graph is followed through

\* ------------------------------------------------------------- manifests
\* tasks.json / dag.json inputs: the task list in file order, the edges as
\* <<from, to>>, and per task the resource list get_task_resources derives
\* from its title, description and resource_requirements.  "X" and "Y" are
\* ids no task declares; "redis_schema" is a resource name that
\* shared_resources does not configure.
Diamond == [tasks |-> <<"A", "B", "C">>, edges |-> {<<"A", "C">>, <<"B", "C">>},
            resources |-> [A |-> <<"ci_runners">>,
                           B |-> <<"ci_runners", "deployment_slot">>,
                           C |-> <<"deployment_slot">>]]

Chain == [tasks |-> <<"A", "B", "C">>, edges |-> {<<"A", "B">>, <<"B", "C">>},
          resources |-> [A |-> <<>>, B |-> <<"deployment_slot">>,
                         C |-> <<"redis_schema">>]]

Dangling == [tasks |-> <<"A", "B">>,
             edges |-> {<<"A", "B">>, <<"X", "B">>, <<"A", "Y">>},
             resources |-> [A |-> <<>>, B |-> <<>>]]

Single == [tasks |-> <<"A">>, edges |-> {}, resources |-> [A |-> <<>>]]

\* three independent tasks that compete for the pool and the lock
Fanout == [tasks |-> <<"A", "B", "C">>, edges |-> {},
           resources |-> [A |-> <<"ci_runners">>,
                          B |-> <<"deployment_slot", "ci_runners">>,
                          C |-> <<"ci_runners", "deployment_slot">>]]

\* two dependents of one task that need the same exclusive resource
Fork == [tasks |-> <<"A", "B", "C">>, edges |-> {<<"A", "B">>, <<"A", "C">>},
         resources |-> [A |-> <<>>, B |-> <<"deployment_slot">>,
                        C |-> <<"deployment_slot">>]]

\* A run of the mailbox: the manifest, the worker processes that are started
\* and the number of times the operator is willing to approve a help request.
\* The runs with several tasks start one worker, the run with one task
\* starts every worker.
Scenarios ==
  { [manifest |-> Diamond,  workers |-> {1}, retries |-> 0],
    [manifest |-> Chain,    workers |-> {1}, retries |-> 0],
    [manifest |-> Dangling, workers |-> {1}, retries |-> 0],
    [manifest |-> Single,   workers |-> 1..NumWorkers, retries |-> 0],
    [manifest |-> Single,   workers |-> {1}, retries |-> MaxRetry] }

Workers == 1..NumWorkers

Range(s) == {s[i] : i \in DOMAIN s}

Min(a, b) == IF a < b THEN a ELSE b

\* dict helpers: a dict is a function whose DOMAIN is its key set
Put(d, k, v) == [x \in DOMAIN d \cup {k} |-> IF x = k THEN v ELSE d[x]]

Del(d, k) == [x \in DOMAIN d \ {k} |-> d[x]]

EmptyDict == [x \in {} |-> 0]

VARIABLES
  manifest,         \* the loaded tasks.json / dag.json
  started,          \* the worker processes that run
  retries,          \* approvals the operator is willing to give per entry
  \* -- mailbox tree (files on disk)
  open_tasks, finished, failed, help_me,
  claude_dir,       \* claude_dir[w]: worker w's private directory
  \* -- FileBasedSLAPSCoordinator in-memory state
  completed_tasks, failed_tasks, in_progress, help_requests,
  cpc,              \* position of the coordinator in run()/scan_directories()
  help_todo,        \* help-me listing still to be iterated in this scan
  help_cur,         \* entry the operator is being prompted for
  scan_i,           \* worker directory the claimed scan is at
  ticks,            \* iterations of the loop of run() completed
  runs,             \* coordinator processes started over this mailbox tree
  \* -- ClaudeWorker processes
  wpc,              \* position of each worker in run()
  wlist,            \* listing of open-tasks not yet tried in this claim_task
  wtask,            \* my_task_file: stem of the entry the worker holds
  wmiss,            \* entries whose rename raised FileNotFoundError in the
                    \* worker's current or last claim_task
  \* -- the other programs
  rm,               \* a ResourceManager and the last call made on it
  sc,               \* the SLAPSCoordinator object and its position in run()
  dm                \* the DependencyManager: staged directory and position

fsVars == <<open_tasks, finished, failed, help_me, claude_dir>>
coordVars == <<completed_tasks, failed_tasks, in_progress, help_requests,
               cpc, help_todo, help_cur, scan_i, ticks>>
runVars == <<runs>>
workerVars == <<wpc, wlist, wtask, wmiss>>
otherVars == <<rm, sc, dm>>
envVars == <<manifest, started, retries, runVars, otherVars>>
vars == <<envVars, fsVars, coordVars, workerVars>>

\* ---------------------------------------------------------- ResourceManager
\* shared_resources of tasks.json: one exclusive and one shared_limited
\* resource, under two of the names get_task_resources derives.
ResourceConfig ==
  [deployment_slot |-> [type |-> "exclusive", capacity |-> 1],
   ci_runners |-> [type |-> "shared_limited", capacity |-> CiRunners]]

ResourceNames == DOMAIN ResourceConfig

\* __init__: a threading.Lock per exclusive resource, a
\* threading.Semaphore(capacity) per shared_limited one.  locks[n] is the
\* number of permits left: 1/0 for an unlocked/locked Lock, the counter of
\* the Semaphore.
InitLocks ==
  [n \in ResourceNames |->
     IF ResourceConfig[n].type = "exclusive" THEN 1 ELSE ResourceConfig[n].capacity]

Count(seq, x) == Cardinality({i \in DOMAIN seq : seq[i] = x})

\* a rollback that forgets the last resource taken
Rollback_DropLast(l, acquired) ==
  [n \in DOMAIN l |-> l[n] + Count(SubSeq(acquired, 1, Len(acquired) - 1), n)]

\* the rollback loop: every name of `acquired` is released once
Rollback(l, acquired) == [n \in DOMAIN l |-> l[n] + Count(acquired, n)]

RECURSIVE AcquireLoop(_, _, _, _)
AcquireLoop(l, names, i, acquired) ==
  IF i > Len(names) THEN [locks |-> l, ret |-> "True"]
  ELSE IF names[i] \notin DOMAIN l
       THEN AcquireLoop(l, names, i + 1, acquired)
       ELSE IF l[names[i]] = 0      \* acquire(blocking=False) fails
            THEN [locks |-> Rollback(l, acquired), ret |-> "False"]
            ELSE AcquireLoop([l EXCEPT ![names[i]] = @ - 1], names, i + 1,
                             Append(acquired, names[i]))

\* an acquisition that does not test availability
Acquire_Unchecked(l, names) ==
  [locks |-> [n \in DOMAIN l |-> l[n] - Count(names, n)], ret |-> "True"]

\* ResourceManager.acquire(task_id, resource_names)
Acquire(l, names) == AcquireLoop(l, names, 1, <<>>)

\* Lock.release() of an unlocked Lock raises RuntimeError and ends the
\* loop; Semaphore.release() increments the counter without a ceiling.
RECURSIVE ReleaseLoop(_, _, _)
ReleaseLoop(l, names, i) ==
  IF i > Len(names) THEN [locks |-> l, ret |-> "None"]
  ELSE IF names[i] \notin DOMAIN l
       THEN ReleaseLoop(l, names, i + 1)
       ELSE IF ResourceConfig[names[i]].type = "exclusive" /\ l[names[i]] = 1
            THEN [locks |-> l, ret |-> "RuntimeError"]
            ELSE ReleaseLoop([l EXCEPT ![names[i]] = @ + 1], names, i + 1)

\* ResourceManager.release(task_id, resource_names)
Release(l, names) == ReleaseLoop(l, names, 1)

\* resource lists a caller may pass: configured names and one that is not
Requests ==
  UNION {[1..k -> ResourceNames \cup {"unknown"}] : k \in 0..MaxReq}

RMInitial == [locks |-> InitLocks, op |-> "init", req |-> <<>>,
              pre |-> InitLocks, ret |-> "None"]

\* ----------------------------------------------------- load_tasks (graph)
TaskIds == Range(manifest.tasks)

\* dependencies[to] gets edge.from whenever `to` is a declared task
dependencies ==
  [t \in TaskIds |-> {e[1] : e \in {d \in manifest.edges : d[2] = t}}]

\* dependents[from] gets edge.to whenever `from` is a declared task
dependents ==
  [t \in TaskIds |-> {e[2] : e \in {d \in manifest.edges : d[1] = t}}]

\* ------------------------------------------------------ get_ready_tasks
\* a readiness test that does not look at the predecessors
IsReady_NoDeps(t) ==
  /\ t \notin completed_tasks
  /\ t \notin failed_tasks
  /\ t \notin DOMAIN in_progress

IsReady(t) ==
  /\ t \notin completed_tasks
  /\ t \notin failed_tasks
  /\ t \notin DOMAIN in_progress
  /\ \A d \in dependencies[t] : d \in completed_tasks

GetReadyTasks == SelectSeq(manifest.tasks, IsReady)

\* ------------------------------------------------------ create_task_file
\* The envelope: task_id, the task payload, dependencies_completed; `fields`
\* are the annotation keys added later, retry_count the value of that key.
CreateTaskFile(t) ==
  [task_id |-> t, task |-> t,
   dependencies_completed |-> dependencies[t] \cap completed_tasks,
   fields |-> {}, retry_count |-> 0]

\* --------------------------------------------------- publish_ready_tasks
PublishLimit == 5

ToPublish ==
  LET ready == GetReadyTasks
  IN  {ready[i] : i \in 1..Min(PublishLimit, Len(ready))} \ DOMAIN open_tasks

PublishReadyTasks ==
  open_tasks' = [t \in DOMAIN open_tasks \cup ToPublish |->
                   IF t \in DOMAIN open_tasks THEN open_tasks[t]
                   ELSE CreateTaskFile(t)]

\* while len(self.completed_tasks) < len(self.tasks)
LoopTarget ==
  IF Cardinality(completed_tasks) < Cardinality(TaskIds)
  THEN "scan_finished" ELSE "done"

\* run(): the initial publication before the loop
InitialPublish ==
  /\ cpc = "start"
  /\ PublishReadyTasks
  /\ cpc' = LoopTarget
  /\ UNCHANGED <<envVars, finished, failed, help_me, claude_dir,
                 completed_tasks, failed_tasks, in_progress, help_requests,
                 help_todo, help_cur, scan_i, ticks, workerVars>>

\* ------------------------------------------------------ scan_directories
\* a scan that records a finished entry only for a task it saw claimed
ScanFinished_OnlyClaimed ==
  /\ cpc = "scan_finished"
  /\ completed_tasks' = completed_tasks \cup (DOMAIN finished \cap DOMAIN in_progress)
  /\ in_progress' = [t \in DOMAIN in_progress \ (DOMAIN finished \ completed_tasks)
                       |-> in_progress[t]]
  /\ cpc' = "scan_failed"
  /\ UNCHANGED <<envVars, fsVars, failed_tasks, help_requests,
                 help_todo, help_cur, scan_i, ticks, workerVars>>

\* a scan that removes the finished entries it has recorded
ScanFinished_Consume ==
  /\ cpc = "scan_finished"
  /\ completed_tasks' = completed_tasks \cup DOMAIN finished
  /\ in_progress' = [t \in DOMAIN in_progress \ (DOMAIN finished \ completed_tasks)
                       |-> in_progress[t]]
  /\ finished' = EmptyDict
  /\ cpc' = "scan_failed"
  /\ UNCHANGED <<envVars, open_tasks, failed, help_me, claude_dir, failed_tasks,
                 help_requests, help_todo, help_cur, scan_i, ticks, workerVars>>

\* finished-tasks: every id not yet in completed_tasks is recorded
ScanFinished ==
  /\ cpc = "scan_finished"
  /\ completed_tasks' = completed_tasks \cup DOMAIN finished
  /\ in_progress' = [t \in DOMAIN in_progress \ (DOMAIN finished \ completed_tasks)
                       |-> in_progress[t]]
  /\ cpc' = "scan_failed"
  /\ UNCHANGED <<envVars, fsVars, failed_tasks, help_requests,
                 help_todo, help_cur, scan_i, ticks, workerVars>>

\* failed-tasks: every id not yet in failed_tasks is recorded; then the
\* help-me directory is listed
ScanFailed ==
  /\ cpc = "scan_failed"
  /\ failed_tasks' = failed_tasks \cup DOMAIN failed
  /\ in_progress' = [t \in DOMAIN in_progress \ (DOMAIN failed \ failed_tasks)
                       |-> in_progress[t]]
  /\ help_todo' = DOMAIN help_me
  /\ cpc' = "scan_help"
  /\ UNCHANGED <<envVars, fsVars, completed_tasks, help_requests,
                 help_cur, scan_i, ticks, workerVars>>

\* help-me: one listed entry; a new request is recorded and the operator
\* is prompted (input() blocks the coordinator until the answer)
ScanHelp ==
  /\ cpc = "scan_help"
  /\ \/ /\ help_todo = {}
        /\ cpc' = "scan_claimed"
        /\ scan_i' = 1
        /\ UNCHANGED <<help_todo, help_cur, help_requests>>
     \/ \E t \in help_todo :
          /\ help_todo' = help_todo \ {t}
          /\ IF t \in help_requests
             THEN UNCHANGED <<cpc, help_cur, help_requests>>
             ELSE /\ help_requests' = help_requests \cup {t}
                  /\ help_cur' = t
                  /\ cpc' = "await_input"
          /\ UNCHANGED scan_i
  /\ UNCHANGED <<envVars, fsVars, completed_tasks, failed_tasks, in_progress,
                 ticks, workerVars>>

\* an approval that republishes the entry with its retry_count as it was
OperatorAnswer_SameCount ==
  /\ cpc = "await_input"
  /\ \/ /\ help_me[help_cur].retry_count < retries
        /\ LET data == help_me[help_cur]
               upd == [data EXCEPT !.fields = @ \cup {"updated_plan", "retry_count"}]
           IN  /\ open_tasks' = Put(open_tasks, help_cur, upd)
               /\ help_me' = Del(help_me, help_cur)
               /\ help_requests' = help_requests \ {help_cur}
     \/ UNCHANGED <<open_tasks, help_me, help_requests>>
  /\ cpc' = "scan_help"
  /\ help_cur' = "none"
  /\ UNCHANGED <<envVars, finished, failed, claude_dir, completed_tasks,
                 failed_tasks, in_progress, help_todo, scan_i, ticks, workerVars>>

\* the operator answers the prompt "Update plan for <id>? (y/n/skip)"
OperatorAnswer ==
  /\ cpc = "await_input"
  /\ \/ /\ help_me[help_cur].retry_count < retries
        /\ LET data == help_me[help_cur]
               upd == [data EXCEPT !.fields = @ \cup {"updated_plan", "retry_count"},
                                   !.retry_count = @ + 1]
           IN  /\ open_tasks' = Put(open_tasks, help_cur, upd)
               /\ help_me' = Del(help_me, help_cur)
               /\ help_requests' = help_requests \ {help_cur}
     \/ UNCHANGED <<open_tasks, help_me, help_requests>>
  /\ cpc' = "scan_help"
  /\ help_cur' = "none"
  /\ UNCHANGED <<envVars, finished, failed, claude_dir, completed_tasks,
                 failed_tasks, in_progress, help_todo, scan_i, ticks, workerVars>>

\* claude-NNN: one worker directory per step, in index order
ScanClaimed ==
  /\ cpc = "scan_claimed"
  /\ in_progress' = [t \in DOMAIN in_progress \cup DOMAIN claude_dir[scan_i] |->
                       IF t \in DOMAIN in_progress THEN in_progress[t] ELSE scan_i]
  /\ IF scan_i < NumWorkers
     THEN scan_i' = scan_i + 1 /\ UNCHANGED cpc
     ELSE scan_i' = 0 /\ cpc' = "publish"
  /\ UNCHANGED <<envVars, fsVars, completed_tasks, failed_tasks, help_requests,
                 help_todo, help_cur, ticks, workerVars>>

\* run(): publish newly ready tasks
Publish ==
  /\ cpc = "publish"
  /\ PublishReadyTasks
  /\ cpc' = "stats"
  /\ UNCHANGED <<envVars, finished, failed, help_me, claude_dir,
                 completed_tasks, failed_tasks, in_progress, help_requests,
                 help_todo, help_cur, scan_i, ticks, workerVars>>

\* write_stats: the snapshot written to stats/current.json
WriteStats ==
  [total_tasks |-> Cardinality(TaskIds),
   completed |-> Cardinality(completed_tasks),
   failed |-> Cardinality(failed_tasks),
   in_progress |-> Cardinality(DOMAIN in_progress),
   ready |-> Len(GetReadyTasks),
   help_requests |-> Cardinality(help_requests)]

\* the runs with one task are followed one iteration longer
TickLimit == IF Len(manifest.tasks) = 1 THEN MaxTicks + 1 ELSE MaxTicks

\* run(): write_stats, time.sleep(1), then the while test.  The operator's
\* interrupt arrives during the sleep of iteration TickLimit at the latest.
StatsAndSleep ==
  /\ cpc = "stats"
  /\ ticks' = ticks + 1
  /\ cpc' = IF LoopTarget # "done" /\ ticks + 1 >= TickLimit
            THEN "stopped" ELSE LoopTarget
  /\ UNCHANGED <<envVars, fsVars, completed_tasks, failed_tasks, in_progress,
                 help_requests, help_todo, help_cur, scan_i, workerVars>>

\* KeyboardInterrupt inside the loop
Interrupt ==
  /\ cpc \notin {"start", "done", "stopped"}
  /\ cpc' = "stopped"
  /\ UNCHANGED <<envVars, fsVars, completed_tasks, failed_tasks, in_progress,
                 help_requests, help_todo, help_cur, scan_i, ticks, workerVars>>

\* ------------------------------------------------------------ ClaudeWorker
\* claim_task: list open-tasks (None when the listing is empty)
WorkerList(w) ==
  /\ wpc[w] = "idle"
  /\ DOMAIN open_tasks # {}
  /\ wlist' = [wlist EXCEPT ![w] = DOMAIN open_tasks]
  /\ wmiss' = [wmiss EXCEPT ![w] = {}]
  /\ wpc' = [wpc EXCEPT ![w] = "claim"]
  /\ UNCHANGED <<envVars, fsVars, coordVars, wtask>>

\* a claim that copies the entry and leaves the original in open-tasks
Rename_Copy(w, t) ==
  IF t \in DOMAIN open_tasks
  THEN /\ claude_dir' = [claude_dir EXCEPT ![w] = Put(@, t, open_tasks[t])]
       /\ wtask' = [wtask EXCEPT ![w] = t]
       /\ wlist' = [wlist EXCEPT ![w] = {}]
       /\ wpc' = [wpc EXCEPT ![w] = "exec"]
       /\ UNCHANGED <<open_tasks, wmiss>>
  ELSE /\ wlist' = [wlist EXCEPT ![w] = @ \ {t}]
       /\ wmiss' = [wmiss EXCEPT ![w] = @ \cup {t}]
       /\ wpc' = [wpc EXCEPT ![w] = IF wlist[w] = {t} THEN "idle" ELSE "claim"]
       /\ UNCHANGED <<claude_dir, open_tasks, wtask>>

\* a claim that gives up the pass at the first FileNotFoundError
Rename_GiveUp(w, t) ==
  IF t \in DOMAIN open_tasks
  THEN /\ claude_dir' = [claude_dir EXCEPT ![w] = Put(@, t, open_tasks[t])]
       /\ open_tasks' = Del(open_tasks, t)
       /\ wtask' = [wtask EXCEPT ![w] = t]
       /\ wlist' = [wlist EXCEPT ![w] = {}]
       /\ wpc' = [wpc EXCEPT ![w] = "exec"]
       /\ UNCHANGED wmiss
  ELSE /\ wlist' = [wlist EXCEPT ![w] = {}]
       /\ wmiss' = [wmiss EXCEPT ![w] = @ \cup {t}]
       /\ wpc' = [wpc EXCEPT ![w] = "idle"]
       /\ UNCHANGED <<claude_dir, open_tasks, wtask>>

\* the atomic rename of one listed entry into the worker's directory
Rename(w, t) ==
  IF t \in DOMAIN open_tasks
  THEN /\ claude_dir' = [claude_dir EXCEPT ![w] = Put(@, t, open_tasks[t])]
       /\ open_tasks' = Del(open_tasks, t)
       /\ wtask' = [wtask EXCEPT ![w] = t]
       /\ wlist' = [wlist EXCEPT ![w] = {}]
       /\ wpc' = [wpc EXCEPT ![w] = "exec"]
       /\ UNCHANGED wmiss
  ELSE \* FileNotFoundError: someone else got it, continue with the next
       /\ wlist' = [wlist EXCEPT ![w] = @ \ {t}]
       /\ wmiss' = [wmiss EXCEPT ![w] = @ \cup {t}]
       /\ wpc' = [wpc EXCEPT ![w] = IF wlist[w] = {t} THEN "idle" ELSE "claim"]
       /\ UNCHANGED <<claude_dir, open_tasks, wtask>>

\* claim_task: try the next entry of the shuffled listing
WorkerClaim(w) ==
  /\ wpc[w] = "claim"
  /\ \E t \in wlist[w] : Rename(w, t)
  /\ UNCHANGED <<envVars, finished, failed, help_me, coordVars>>

\* an annotation that stamps only the time
TerminalFields_Stamp(resp) ==
  CASE resp = "done"   -> {"completed_at"}
    [] resp = "help"   -> {"help_requested_at"}
    [] resp = "failed" -> {"failed_at"}

TerminalFields(resp) ==
  CASE resp = "done"   -> {"completed_at", "completed_by", "completion_summary"}
    [] resp = "help"   -> {"help_request", "help_requested_at", "help_requested_by"}
    [] resp = "failed" -> {"error", "failed_at", "failed_by"}

\* execute_task: the annotated entry is written into the terminal directory
\* the answer names
WorkerWriteTerminal(w, resp) ==
  /\ wpc[w] = "exec"
  /\ LET t == wtask[w]
         task_data == [claude_dir[w][t] EXCEPT !.fields = @ \cup TerminalFields(resp)]
     IN  /\ finished' = IF resp = "done" THEN Put(finished, t, task_data) ELSE finished
         /\ help_me' = IF resp = "help" THEN Put(help_me, t, task_data) ELSE help_me
         /\ failed' = IF resp = "failed" THEN Put(failed, t, task_data) ELSE failed
  /\ wpc' = [wpc EXCEPT ![w] = "unlink"]
  /\ UNCHANGED <<envVars, open_tasks, claude_dir, coordVars, wlist, wtask, wmiss>>

\* execute_task: task_file.unlink() after the terminal write
WorkerUnlink(w) ==
  /\ wpc[w] = "unlink"
  /\ claude_dir' = [claude_dir EXCEPT ![w] = Del(@, wtask[w])]
  /\ wtask' = [wtask EXCEPT ![w] = "none"]
  /\ wpc' = [wpc EXCEPT ![w] = "idle"]
  /\ UNCHANGED <<envVars, open_tasks, finished, failed, help_me, coordVars, wlist, wmiss>>

\* ------------------------------------------------------- SLAPSCoordinator
\* default of max_claude_instances
MaxInstances == 3

\* TaskState
TaskState == {"pending", "ready", "running", "completed", "failed", "blocked"}

SeqRemove(seq, x) == SelectSeq(seq, LAMBDA y : y # x)

\* the orders in which a set may be iterated
Perms(S) == {p \in [1..Cardinality(S) -> S] : Range(p) = S}

\* what the environment does to one launch_task call that passes the
\* instance limit and the cooldown: "busy" is a cpu or memory reading above
\* the limit, "raise" an exception between the acquisition and Popen
\* (prompt file, missing executable), "ok" a started process
Outcomes == {"ok", "busy", "raise"}

\* the object after __init__ and load_tasks.  running_tasks is the key
\* list of the dict in insertion order.  launches[t] counts the processes
\* started for t and permits[t][n] the permits of n acquired on behalf of
\* t and not released since: both are history, not fields of the object.
ScInitial ==
  [state |-> [t \in TaskIds |-> "pending"],
   held_resources |-> [t \in TaskIds |-> <<>>],
   max_claude_instances |-> MaxInstances,
   running_tasks |-> <<>>,
   completed_tasks |-> {},
   failed_tasks |-> {},
   tasks_completed |-> 0,
   tasks_failed |-> 0,
   locks |-> InitLocks,
   cooldown |-> FALSE,
   launch_queue |-> <<>>,
   blocked_tasks |-> <<>>,
   still_blocked |-> <<>>,
   todo |-> <<>>,
   loops |-> 0,
   pc |-> "start",
   launches |-> [t \in TaskIds |-> 0],
   permits |-> [t \in TaskIds |-> [n \in ResourceNames |-> 0]]]

ScIdle == [ScInitial EXCEPT !.pc = "off"]

\* SLAPSCoordinator.get_ready_tasks: PENDING tasks with every dependency
\* in completed_tasks, in the order of self.tasks
ScGetReadyTasks(s) ==
  SelectSeq(manifest.tasks,
            LAMBDA t : s.state[t] = "pending"
                       /\ dependencies[t] \subseteq s.completed_tasks)

\* a check that does not look at the instance limit
CanLaunchTask_NoLimit(s, o) ==
  ~(s.cooldown \/ o = "busy")

\* SystemResourceManager.can_launch_task(len(self.running_tasks)): the
\* instance limit, the cpu and memory readings (o = "busy" when one is
\* above its limit), the launch cooldown
CanLaunchTask(s, o) ==
  ~(Len(s.running_tasks) >= s.max_claude_instances \/ s.cooldown \/ o = "busy")

\* launch_task(t).  can_launch_task refuses at the instance limit, on a
\* cpu/memory reading above the limit and during the 2.0 s cooldown that
\* record_launch starts; the cooldown outlasts the iteration that launched
\* (a refused call takes 0.1 s, the sleep 0.5 s).
LaunchTask(s, t, o) ==
  IF ~CanLaunchTask(s, o)
  THEN [s |-> s, ok |-> FALSE]
  ELSE
    LET required_resources == manifest.resources[t]
        a == IF required_resources # <<>>
             THEN Acquire(s.locks, required_resources)
             ELSE [locks |-> s.locks, ret |-> "True"]
    IN  IF a.ret = "False"
        THEN [s |-> [s EXCEPT !.state[t] = "ready"], ok |-> FALSE]
        ELSE
          LET s1 == [s EXCEPT
                       !.locks = a.locks,
                       !.held_resources[t] = required_resources,
                       !.permits[t] = [n \in ResourceNames |->
                                         @[n] + Count(required_resources, n)]]
          IN  IF o = "raise"
              THEN [s |-> [s1 EXCEPT !.state[t] = "failed",
                                     !.failed_tasks = @ \cup {t}],
                    ok |-> FALSE]
              ELSE [s |-> [s1 EXCEPT
                             !.state[t] = "running",
                             !.running_tasks =
                                IF t \in Range(@) THEN @ ELSE Append(@, t),
                             !.cooldown = TRUE,
                             !.launches[t] = @ + 1],
                    ok |-> TRUE]

\* the release of held_resources when a task leaves running_tasks; a
\* RuntimeError of Lock.release propagates out of run()
ReleaseHeld(s, t) ==
  IF s.held_resources[t] = <<>> THEN s
  ELSE LET r == Release(s.locks, s.held_resources[t])
       IN  IF r.ret = "RuntimeError"
           THEN [s EXCEPT !.locks = r.locks, !.pc = "crashed"]
           ELSE [s EXCEPT
                   !.locks = r.locks,
                   !.permits[t] = [n \in ResourceNames |->
                                     @[n] - Count(s.held_resources[t], n)]]

\* complete_task: the loop over self.dependents[task_id], iterated in the
\* order `order`; self.dependencies[d] of an undeclared d is a KeyError
RECURSIVE TriggerDependents(_, _, _, _)
TriggerDependents(s, order, i, o) ==
  IF i > Len(order) \/ s.pc = "crashed" THEN s
  ELSE LET d == order[i]
       IN  IF d \in s.completed_tasks \cup s.failed_tasks
           THEN TriggerDependents(s, order, i + 1, o)
           ELSE IF d \notin TaskIds
                THEN [s EXCEPT !.pc = "crashed"]
                ELSE IF dependencies[d] \subseteq s.completed_tasks
                     THEN TriggerDependents(LaunchTask(s, d, o[d]).s,
                                            order, i + 1, o)
                     ELSE TriggerDependents(s, order, i + 1, o)

\* complete_task(t) for t in running_tasks
CompleteTask(s, t, order, o) ==
  LET s1 == [s EXCEPT !.running_tasks = SeqRemove(@, t),
                      !.state[t] = "completed",
                      !.completed_tasks = @ \cup {t},
                      !.tasks_completed = @ + 1]
  IN  TriggerDependents(ReleaseHeld(s1, t), order, 1, o)

\* fail_task(t) for t in running_tasks; a RuntimeError of the release
\* leaves before failed_tasks and tasks_failed are updated
FailTask(s, t) ==
  LET s1 == [s EXCEPT !.running_tasks = SeqRemove(@, t),
                      !.state[t] = "failed"]
      s2 == ReleaseHeld(s1, t)
  IN  IF s2.pc = "crashed" THEN s2
      ELSE [s2 EXCEPT !.failed_tasks = @ \cup {t}, !.tasks_failed = @ + 1]

\* monitor_task(t): poll() returns None, 0 or another code
MonitorTask(s, t, rc, order, o) ==
  IF t \notin Range(s.running_tasks) \/ rc = "None" THEN s
  ELSE IF rc = "0" THEN CompleteTask(s, t, order, o)
       ELSE FailTask(s, t)

\* positions of run(): "monitor", "blocked" and "ready" iterate s.todo;
\* an empty iteration is passed over
EnterSleep(s) == [s EXCEPT !.pc = "sleep", !.todo = <<>>]

EnterReady(s) ==
  LET s1 == [s EXCEPT !.blocked_tasks = s.still_blocked, !.still_blocked = <<>>]
      ready == ScGetReadyTasks(s1)
  IN  IF ready = <<>> THEN EnterSleep(s1)
      ELSE [s1 EXCEPT !.pc = "ready", !.todo = ready]

EnterBlocked(s) ==
  IF s.blocked_tasks = <<>> THEN EnterReady([s EXCEPT !.still_blocked = <<>>])
  ELSE [s EXCEPT !.pc = "blocked", !.todo = s.blocked_tasks,
                 !.still_blocked = <<>>]

\* while self.running_tasks or self.get_ready_tasks() or blocked_tasks or
\* launch_queue
EnterWhile(s) ==
  IF \/ s.running_tasks # <<>>
     \/ ScGetReadyTasks(s) # <<>>
     \/ s.blocked_tasks # <<>>
     \/ s.launch_queue # <<>>
  THEN IF s.running_tasks = <<>> THEN [s EXCEPT !.pc = "queue"]
       ELSE [s EXCEPT !.pc = "monitor", !.todo = s.running_tasks]
  ELSE [s EXCEPT !.pc = "done"]

scFrame == <<manifest, started, retries, runVars, rm, dm, fsVars, coordVars,
            workerVars>>

\* run(): launch_queue = initial_tasks.copy(); blocked_tasks = []
ScStart ==
  /\ sc.pc = "start"
  /\ sc' = EnterWhile([sc EXCEPT !.launch_queue = ScGetReadyTasks(sc),
                                 !.blocked_tasks = <<>>])
  /\ UNCHANGED scFrame

\* for task_id in list(self.running_tasks.keys()): self.monitor_task(task_id)
ScMonitor ==
  /\ sc.pc = "monitor"
  /\ LET t == Head(sc.todo)
     IN  \E rc \in {"None", "0", "1"} :
         \E order \in Perms(dependents[t]) :
         \E o \in [dependents[t] \cap TaskIds -> Outcomes] :
           LET s1 == MonitorTask([sc EXCEPT !.todo = Tail(@)], t, rc, order, o)
           IN  sc' = IF s1.pc = "monitor" /\ s1.todo = <<>>
                     THEN [s1 EXCEPT !.pc = "queue"] ELSE s1
  /\ UNCHANGED scFrame

\* if launch_queue: launch launch_queue[0] and pop it on success
ScLaunchQueue ==
  /\ sc.pc = "queue"
  /\ \E o \in Outcomes :
       IF sc.launch_queue = <<>> THEN sc' = EnterBlocked(sc)
       ELSE LET r == LaunchTask(sc, Head(sc.launch_queue), o)
            IN  sc' = EnterBlocked(
                        IF r.ok THEN [r.s EXCEPT !.launch_queue = Tail(@)]
                        ELSE r.s)
  /\ UNCHANGED scFrame

\* for task_id in blocked_tasks: relaunch or keep in still_blocked
ScRetryBlocked ==
  /\ sc.pc = "blocked"
  /\ \E o \in Outcomes :
       LET r == LaunchTask(sc, Head(sc.todo), o)
           s1 == [r.s EXCEPT
                    !.todo = Tail(@),
                    !.still_blocked = IF r.ok THEN @ ELSE Append(@, Head(sc.todo))]
       IN  sc' = IF s1.todo = <<>> THEN EnterReady(s1) ELSE s1
  /\ UNCHANGED scFrame

\* for task_id in ready: launch or append to blocked_tasks
ScLaunchReady ==
  /\ sc.pc = "ready"
  /\ \E o \in Outcomes :
       LET r == LaunchTask(sc, Head(sc.todo), o)
           s1 == [r.s EXCEPT
                    !.todo = Tail(@),
                    !.blocked_tasks = IF r.ok THEN @ ELSE Append(@, Head(sc.todo))]
       IN  sc' = IF s1.todo = <<>> THEN EnterSleep(s1) ELSE s1
  /\ UNCHANGED scFrame

\* time.sleep(0.5) and the while test; the cooldown may have run out.  The
\* operator's interrupt arrives during the sleep of iteration MaxLoops at
\* the latest.
ScSleep ==
  /\ sc.pc = "sleep"
  /\ \E expired \in BOOLEAN :
       LET s1 == EnterWhile([sc EXCEPT !.loops = @ + 1,
                                       !.cooldown = @ /\ ~expired])
       IN  sc' = IF s1.pc # "done" /\ s1.loops >= MaxLoops
                 THEN [s1 EXCEPT !.pc = "stopped", !.todo = <<>>] ELSE s1
  /\ UNCHANGED scFrame

ScNext ==
  \/ ScStart
  \/ ScMonitor
  \/ ScLaunchQueue
  \/ ScRetryBlocked
  \/ ScLaunchReady
  \/ ScSleep

\* ------------------------------------------------------ DependencyManager
\* __init__: self.dependencies is a table keyed by task id; the table is
\* given here by the edges of the manifest.  dm.staged is the staged-tasks
\* directory, dm.ready the list publish_ready_tasks iterates, dm.all_done
\* the test of `completed` read at the top of the loop.
DmIdle == [pc |-> "off", staged |-> {}, ready |-> {}, all_done |-> FALSE]

DmTaskData(t) ==
  [task_id |-> t, task |-> t, dependencies |-> dependencies[t],
   fields |-> {}, retry_count |-> 0]

\* a ready list that does not look at the dependencies
DmGetReadyTasks_NoDeps ==
  {t \in dm.staged : t \notin DOMAIN open_tasks}

\* DependencyManager.get_ready_tasks
DmGetReadyTasks ==
  {t \in dm.staged : /\ t \notin DOMAIN open_tasks
                     /\ dependencies[t] \subseteq DOMAIN finished}

dmFrame == <<manifest, started, retries, runVars, rm, sc, coordVars, workerVars>>

\* stage_all_tasks
DmStageAll ==
  /\ dm.pc = "start"
  /\ dm' = [dm EXCEPT !.staged = TaskIds, !.pc = "list"]
  /\ UNCHANGED <<dmFrame, fsVars>>

\* publish_ready_tasks: ready = self.get_ready_tasks(); in monitor_loop the
\* listing of finished-tasks is read just before
DmListReady ==
  /\ dm.pc = "list"
  /\ dm' = [dm EXCEPT
              !.ready = DmGetReadyTasks,
              !.all_done = (Cardinality(DOMAIN finished) = Len(manifest.tasks)),
              !.pc = "move"]
  /\ UNCHANGED <<dmFrame, fsVars>>

\* publish_ready_tasks: shutil.move of one ready entry; after the last one
\* monitor_loop tests `completed` and sleeps
DmMove ==
  /\ dm.pc = "move"
  /\ IF dm.ready = {}
     THEN /\ dm' = [dm EXCEPT !.pc = IF dm.all_done THEN "done" ELSE "list"]
          /\ UNCHANGED open_tasks
     ELSE \E t \in dm.ready :
            /\ dm' = [dm EXCEPT !.ready = @ \ {t}, !.staged = @ \ {t}]
            /\ open_tasks' = IF t \in dm.staged
                             THEN Put(open_tasks, t, DmTaskData(t))
                             ELSE open_tasks
  /\ UNCHANGED <<dmFrame, finished, failed, help_me, claude_dir>>

DmStep == DmStageAll \/ DmListReady \/ DmMove

\* ----------------------------------------------------------- mailbox spec
Init ==
  /\ \E s \in Scenarios :
       manifest = s.manifest /\ started = s.workers /\ retries = s.retries
  /\ open_tasks = EmptyDict
  /\ finished = EmptyDict
  /\ failed = EmptyDict
  /\ help_me = EmptyDict
  /\ claude_dir = [w \in Workers |-> EmptyDict]
  /\ completed_tasks = {}
  /\ failed_tasks = {}
  /\ in_progress = EmptyDict
  /\ help_requests = {}
  /\ cpc = "start"
  /\ help_todo = {}
  /\ help_cur = "none"
  /\ scan_i = 0
  /\ ticks = 0
  /\ runs = 1
  /\ wpc = [w \in Workers |-> "idle"]
  /\ wlist = [w \in Workers |-> {}]
  /\ wtask = [w \in Workers |-> "none"]
  /\ wmiss = [w \in Workers |-> {}]
  /\ rm = RMInitial
  /\ sc = ScIdle
  /\ dm = DmIdle

CoordinatorStep ==
  \/ InitialPublish
  \/ ScanFinished
  \/ ScanFailed
  \/ ScanHelp
  \/ OperatorAnswer
  \/ ScanClaimed
  \/ Publish
  \/ StatsAndSleep
  \/ Interrupt

WorkerStep ==
  \E w \in started :
    \/ WorkerList(w)
    \/ WorkerClaim(w)
    \/ \E resp \in {"done", "help", "failed"} : WorkerWriteTerminal(w, resp)
    \/ WorkerUnlink(w)

Next == CoordinatorStep \/ WorkerStep

Spec == Init /\ [][Next]_vars

\* ------------------------------------------------- concurrent claim_task
\* N workers have listed open-tasks at the same moment and now run their
\* renames concurrently; nothing else touches the mailbox.
RaceInit ==
  /\ manifest = Diamond
  /\ started = Workers
  /\ retries = 0
  /\ \E S \in SUBSET Range(Diamond.tasks) \ {{}} :
       /\ open_tasks = [t \in S |-> [task_id |-> t, task |-> t,
                                     dependencies_completed |-> {},
                                     fields |-> {}, retry_count |-> 0]]
       /\ \E A \in SUBSET Range(Diamond.tasks) :
            wlist = [w \in Workers |-> S \cup A]
  /\ finished = EmptyDict
  /\ failed = EmptyDict
  /\ help_me = EmptyDict
  /\ claude_dir = [w \in Workers |-> EmptyDict]
  /\ completed_tasks = {}
  /\ failed_tasks = {}
  /\ in_progress = EmptyDict
  /\ help_requests = {}
  /\ cpc = "stopped"
  /\ help_todo = {}
  /\ help_cur = "none"
  /\ scan_i = 0
  /\ ticks = 0
  /\ runs = 1
  /\ wpc = [w \in Workers |-> "claim"]
  /\ wtask = [w \in Workers |-> "none"]
  /\ wmiss = [w \in Workers |-> {}]
  /\ rm = RMInitial
  /\ sc = ScIdle
  /\ dm = DmIdle

RaceNext == \E w \in started : WorkerClaim(w)

SpecRace == RaceInit /\ [][RaceNext]_vars

\* ------------------------------------------- ResourceManager as a program
RMAcquire ==
  /\ \E names \in Requests :
       LET r == Acquire(rm.locks, names)
       IN  rm' = [locks |-> r.locks, op |-> "acquire", req |-> names,
                  pre |-> rm.locks, ret |-> r.ret]
  /\ UNCHANGED <<manifest, started, retries, runVars, sc, dm, fsVars, coordVars, workerVars>>

RMRelease ==
  /\ \E names \in Requests :
       LET r == Release(rm.locks, names)
       IN  /\ \A n \in ResourceNames : r.locks[n] <= MaxPermits
           /\ rm' = [locks |-> r.locks, op |-> "release", req |-> names,
                     pre |-> rm.locks, ret |-> r.ret]
  /\ UNCHANGED <<manifest, started, retries, runVars, sc, dm, fsVars, coordVars, workerVars>>

\* the mailbox at rest, for the specifications of the other programs
MailboxOff ==
  /\ open_tasks = EmptyDict
  /\ finished = EmptyDict
  /\ failed = EmptyDict
  /\ help_me = EmptyDict
  /\ claude_dir = [w \in Workers |-> EmptyDict]
  /\ completed_tasks = {}
  /\ failed_tasks = {}
  /\ in_progress = EmptyDict
  /\ help_requests = {}
  /\ cpc = "stopped"
  /\ help_todo = {}
  /\ help_cur = "none"
  /\ scan_i = 0
  /\ ticks = 0
  /\ runs = 1
  /\ wpc = [w \in Workers |-> "idle"]
  /\ wlist = [w \in Workers |-> {}]
  /\ wtask = [w \in Workers |-> "none"]
  /\ wmiss = [w \in Workers |-> {}]

MailboxIdle ==
  /\ manifest = Single
  /\ started = {}
  /\ retries = 0
  /\ MailboxOff

RMInit == MailboxIdle /\ rm = RMInitial /\ sc = ScIdle /\ dm = DmIdle

RMNext == RMAcquire \/ RMRelease

SpecRM == RMInit /\ [][RMNext]_vars

\* ------------------------------------------- SLAPSCoordinator as a program
ScManifests == {Fanout, Diamond, Chain, Dangling, Fork}

ScInit ==
  /\ manifest \in ScManifests
  /\ started = {}
  /\ retries = 0
  /\ MailboxOff
  /\ rm = RMInitial
  /\ sc = ScInitial
  /\ dm = DmIdle

SpecCoord == ScInit /\ [][ScNext]_vars

\* ------------------------------- DependencyManager with one ClaudeWorker
DmManifests == {Diamond, Chain, Dangling}

DmInit ==
  /\ manifest \in DmManifests
  /\ started = {1}
  /\ retries = 0
  /\ MailboxOff
  /\ rm = RMInitial
  /\ sc = ScIdle
  /\ dm = [DmIdle EXCEPT !.pc = "start"]

DmNext == DmStep \/ WorkerStep

SpecDm == DmInit /\ [][DmNext]_vars

\* ------------------------------------------------- the three dispatchers
DispatchInit == Init \/ ScInit \/ DmInit

DispatchNext == Next \/ ScNext \/ DmStep

SpecDispatch == DispatchInit /\ [][DispatchNext]_vars

\* ---------------------------------------- the mailbox without interrupt
\* One coordinator and one worker that run for ever: no operator interrupt,
\* the worker answers 'done' or 'failed'.
Pair == [tasks |-> <<"A", "B">>, edges |-> {<<"A", "B">>},
         resources |-> [A |-> <<>>, B |-> <<>>]]

LiveManifests == {Single, Pair}

MailboxFresh ==
  /\ open_tasks = EmptyDict
  /\ finished = EmptyDict
  /\ failed = EmptyDict
  /\ help_me = EmptyDict
  /\ claude_dir = [w \in Workers |-> EmptyDict]
  /\ completed_tasks = {}
  /\ failed_tasks = {}
  /\ in_progress = EmptyDict
  /\ help_requests = {}
  /\ cpc = "start"
  /\ help_todo = {}
  /\ help_cur = "none"
  /\ scan_i = 0
  /\ ticks = 0
  /\ runs = 1
  /\ wpc = [w \in Workers |-> "idle"]
  /\ wlist = [w \in Workers |-> {}]
  /\ wtask = [w \in Workers |-> "none"]
  /\ wmiss = [w \in Workers |-> {}]
  /\ rm = RMInitial
  /\ sc = ScIdle
  /\ dm = DmIdle

LiveInit ==
  /\ manifest \in LiveManifests
  /\ started = {1}
  /\ retries = 0
  /\ MailboxFresh

\* run(): write_stats, time.sleep(1) and the while test, iterations not
\* counted
StatsAndSleepOn ==
  /\ cpc = "stats"
  /\ cpc' = LoopTarget
  /\ UNCHANGED <<envVars, fsVars, completed_tasks, failed_tasks, in_progress,
                 help_requests, help_todo, help_cur, scan_i, ticks, workerVars>>

LiveCoordinatorStep ==
  \/ InitialPublish
  \/ ScanFinished
  \/ ScanFailed
  \/ ScanHelp
  \/ ScanClaimed
  \/ Publish
  \/ StatsAndSleepOn

LiveWorkerStep(w) ==
  \/ WorkerList(w)
  \/ WorkerClaim(w)
  \/ \E resp \in {"done", "failed"} : WorkerWriteTerminal(w, resp)
  \/ WorkerUnlink(w)

LiveWorkers == \E w \in started : LiveWorkerStep(w)

LiveNext == LiveCoordinatorStep \/ LiveWorkers

\* the coordinator process and every started worker process keep running
SpecLive ==
  /\ LiveInit
  /\ [][LiveNext]_vars
  /\ WF_vars(LiveCoordinatorStep)
  /\ \A w \in Workers : WF_vars(w \in started /\ LiveWorkerStep(w))

\* ------------------------------------- the mailbox with diligent workers
\* Every started worker keeps claiming and answers 'done' to every task;
\* no operator interrupt.
ProgressManifests == {Diamond, Chain}

\* the three-task manifests run with one worker, Pair with two
ProgressInit ==
  /\ \/ manifest \in ProgressManifests /\ started = {1}
     \/ manifest = Pair /\ started = 1..Min(2, NumWorkers)
  /\ retries = 0
  /\ MailboxFresh

DoneWorkerStep(w) ==
  \/ WorkerList(w)
  \/ WorkerClaim(w)
  \/ WorkerWriteTerminal(w, "done")
  \/ WorkerUnlink(w)

DoneWorkers == \E w \in started : DoneWorkerStep(w)

ProgressNext == LiveCoordinatorStep \/ DoneWorkers

SpecProgress ==
  /\ ProgressInit
  /\ [][ProgressNext]_vars
  /\ WF_vars(LiveCoordinatorStep)
  /\ \A w \in Workers : WF_vars(w \in started /\ DoneWorkerStep(w))

\* ------------------------------------------------- coordinator restart
\* After the coordinator process has ended (interrupt or final report) a
\* new FileBasedSLAPSCoordinator is constructed over the same tree:
\* __init__ creates the directories with exist_ok and starts from empty
\* in-memory sets.
Restart ==
  /\ cpc \in {"stopped", "done"}
  /\ runs < MaxRuns
  /\ runs' = runs + 1
  /\ completed_tasks' = {}
  /\ failed_tasks' = {}
  /\ in_progress' = EmptyDict
  /\ help_requests' = {}
  /\ cpc' = "start"
  /\ help_todo' = {}
  /\ help_cur' = "none"
  /\ scan_i' = 0
  /\ ticks' = 0
  /\ UNCHANGED <<manifest, started, retries, otherVars, fsVars, workerVars>>

RestartInit ==
  /\ manifest \in LiveManifests
  /\ started = {1}
  /\ retries = 0
  /\ MailboxFresh

RestartNext == CoordinatorStep \/ WorkerStep \/ Restart

SpecRestart == RestartInit /\ [][RestartNext]_vars

\* ------------------------------------------- the mailbox with help requests
\* One coordinator and one worker that run for ever; the worker answers
\* 'done' or 'help'.  The operator is a person at the terminal who approves
\* no retry: the prompt is answered with something other than 'y', or not
\* at all.
Twin == [tasks |-> <<"A", "B">>, edges |-> {},
         resources |-> [A |-> <<>>, B |-> <<>>]]

HelpInit ==
  /\ manifest = Twin
  /\ started = {1}
  /\ retries = 0
  /\ MailboxFresh

HelpWorkerStep(w) ==
  \/ WorkerList(w)
  \/ WorkerClaim(w)
  \/ \E resp \in {"done", "help"} : WorkerWriteTerminal(w, resp)
  \/ WorkerUnlink(w)

HelpWorkers == \E w \in started : HelpWorkerStep(w)

HelpNext == LiveCoordinatorStep \/ OperatorAnswer \/ HelpWorkers

\* the coordinator process and the worker process keep running; nothing
\* makes the operator answer
SpecHelp ==
  /\ HelpInit
  /\ [][HelpNext]_vars
  /\ WF_vars(LiveCoordinatorStep)
  /\ \A w \in Workers : WF_vars(w \in started /\ HelpWorkerStep(w))

\* ------------------------------------------- the mailbox with a wide graph
\* More ready tasks than one publication takes: A, five independent tasks
\* and B, which depends on A.
Wide == [tasks |-> <<"A", "T1", "T2", "T3", "T4", "T5", "B">>,
         edges |-> {<<"A", "B">>},
         resources |-> [t \in {"A", "T1", "T2", "T3", "T4", "T5", "B"} |-> <<>>]]

WideInit ==
  /\ manifest = Wide
  /\ started = {1}
  /\ retries = 0
  /\ MailboxFresh

\* the worker answers 'done'; it is followed until it has finished MaxDone
\* tasks
WideWorkerStep(w) ==
  \/ Cardinality(DOMAIN finished) < MaxDone /\ WorkerList(w)
  \/ WorkerClaim(w)
  \/ WorkerWriteTerminal(w, "done")
  \/ WorkerUnlink(w)

WideWorkers == \E w \in started : WideWorkerStep(w)

WideNext == LiveCoordinatorStep \/ WideWorkers

SpecWide == WideInit /\ [][WideNext]_vars

\* --------------------------------- SLAPSCoordinator with a lower limit
\* --max-instances below the number of tasks: three independent tasks,
\* at most one or two instances.
ThrottleInit ==
  /\ manifest = Fanout
  /\ started = {}
  /\ retries = 0
  /\ MailboxOff
  /\ rm = RMInitial
  /\ \E n \in 1..(MaxInstances - 1) :
       sc = [ScInitial EXCEPT !.max_claude_instances = n]
  /\ dm = DmIdle

SpecThrottle == ThrottleInit /\ [][ScNext]_vars

\* --------------------------------- the publication as the file system sees it
\* publish_ready_tasks writes each entry with open(task_file, 'w') followed
\* by json.dump: the name exists in open-tasks, with no content yet, before
\* the envelope is written and the file closed.  A worker that lists the
\* directory in between renames the entry and reads it.  One coordinator and
\* one worker; the worker answers 'done'.
Truncated(t) ==
  [task_id |-> t, task |-> "truncated", dependencies_completed |-> {},
   fields |-> {}, retry_count |-> 0]

\* json.load of the claimed entry succeeds
Loadable(entry) == entry.task # "truncated"

\* the entry the coordinator has opened and not yet written
BeingWritten ==
  {t \in DOMAIN open_tasks : ~Loadable(open_tasks[t])}
    \cup UNION {{t \in DOMAIN claude_dir[w] : ~Loadable(claude_dir[w][t])} :
                w \in Workers}

\* for task_id in ready[:5]: the entries of the slice from position i on
\* whose file does not exist
SliceFrom(i) ==
  LET ready == GetReadyTasks
  IN  {j \in i..Min(PublishLimit, Len(ready)) : ready[j] \notin DOMAIN open_tasks}

\* the first pass of the loop that finds no file: open(task_file, 'w')
PublishOpen ==
  /\ cpc = "start"
  /\ SliceFrom(1) # {}
  /\ LET j == CHOOSE k \in SliceFrom(1) : \A m \in SliceFrom(1) : k <= m
         t == GetReadyTasks[j]
     IN  open_tasks' = Put(open_tasks, t, Truncated(t))
  /\ cpc' = "dump"
  /\ UNCHANGED <<envVars, finished, failed, help_me, claude_dir,
                 completed_tasks, failed_tasks, in_progress, help_requests,
                 help_todo, help_cur, scan_i, ticks, workerVars>>

\* json.dump and close land in the file wherever its name now is; then the
\* loop goes on to the next entry of the slice, or publish_ready_tasks
\* returns
PublishDump ==
  /\ cpc = "dump"
  /\ LET ready == GetReadyTasks
         t == CHOOSE x \in BeingWritten : TRUE
         i == CHOOSE k \in 1..Len(ready) : ready[k] = t
         rest == SliceFrom(i + 1)
         written == IF t \in DOMAIN open_tasks
                    THEN Put(open_tasks, t, CreateTaskFile(t))
                    ELSE open_tasks
     IN  /\ claude_dir' = [w \in Workers |->
                             IF t \in DOMAIN claude_dir[w]
                             THEN Put(claude_dir[w], t, CreateTaskFile(t))
                             ELSE claude_dir[w]]
         /\ IF rest = {}
            THEN open_tasks' = written /\ cpc' = LoopTarget
            ELSE LET j == CHOOSE k \in rest : \A m \in rest : k <= m
                 IN  /\ open_tasks' = Put(written, ready[j], Truncated(ready[j]))
                     /\ cpc' = "dump"
  /\ UNCHANGED <<envVars, finished, failed, help_me,
                 completed_tasks, failed_tasks, in_progress, help_requests,
                 help_todo, help_cur, scan_i, ticks, workerVars>>

\* execute_task: json.load raises, task_data is unbound, the handler's own
\* try raises on task_data['error'] and its bare except passes; the entry is
\* neither written to failed-tasks nor unlinked, and run() loops
WorkerLoadFails(w) ==
  /\ wpc[w] = "exec"
  /\ ~Loadable(claude_dir[w][wtask[w]])
  /\ wtask' = [wtask EXCEPT ![w] = "none"]
  /\ wpc' = [wpc EXCEPT ![w] = "idle"]
  /\ UNCHANGED <<envVars, fsVars, coordVars, wlist, wmiss>>

TornInit ==
  /\ manifest = Twin
  /\ started = {1}
  /\ retries = 0
  /\ MailboxFresh

TornCoordinatorStep ==
  \/ PublishOpen
  \/ PublishDump
  \/ ScanFinished
  \/ ScanFailed
  \/ ScanHelp
  \/ ScanClaimed
  \/ Publish
  \/ StatsAndSleepOn

TornWorkerStep(w) ==
  \/ WorkerList(w)
  \/ WorkerClaim(w)
  \/ wpc[w] = "exec" /\ Loadable(claude_dir[w][wtask[w]])
       /\ WorkerWriteTerminal(w, "done")
  \/ WorkerUnlink(w)
  \/ WorkerLoadFails(w)

TornWorkers == \E w \in started : TornWorkerStep(w)

TornNext == TornCoordinatorStep \/ TornWorkers

SpecTorn == TornInit /\ [][TornNext]_vars

\* ------------------------------------------- scan_directories called twice
\* scan_directories as a function of the mailbox and of the coordinator's
\* four structures.  The mailbox of a single task A is drawn with A.json in
\* any of finished-tasks, failed-tasks, help-me and the worker directories;
\* completed_tasks and failed_tasks hold ids whose entry is in the directory
\* they were read from, in_progress any earlier sighting; no help request
\* has been seen before the first call.  No worker moves, and the operator
\* approves nothing (retries = 0).
Envelope(t, resp) ==
  [task_id |-> t, task |-> t, dependencies_completed |-> {},
   fields |-> TerminalFields(resp), retry_count |-> 0]

Dir(ids, resp) == {[t \in s |-> Envelope(t, resp)] : s \in SUBSET ids}

Claimed(ids) ==
  {[t \in s |-> [task_id |-> t, task |-> t, dependencies_completed |-> {},
                 fields |-> {}, retry_count |-> 0]] : s \in SUBSET ids}

ScanInit ==
  /\ manifest = Single
  /\ started = Workers
  /\ retries = 0
  /\ runs = 1
  /\ rm = RMInitial
  /\ sc = ScIdle
  /\ dm = DmIdle
  /\ open_tasks = EmptyDict
  /\ finished \in Dir(Range(Single.tasks), "done")
  /\ failed \in Dir(Range(Single.tasks), "failed")
  /\ help_me \in Dir(Range(Single.tasks), "help")
  /\ claude_dir \in [Workers -> Claimed(Range(Single.tasks))]
  /\ completed_tasks \in SUBSET DOMAIN finished
  /\ failed_tasks \in SUBSET DOMAIN failed
  /\ help_requests = {}
  /\ in_progress \in UNION {[s -> Workers] : s \in SUBSET Range(Single.tasks)}
  /\ cpc = "scan_finished"
  /\ help_todo = {}
  /\ help_cur = "none"
  /\ scan_i = 0
  /\ ticks = 0
  /\ wpc = [w \in Workers |-> IF DOMAIN claude_dir[w] = {} THEN "idle" ELSE "exec"]
  /\ wlist = [w \in Workers |-> {}]
  /\ wtask = [w \in Workers |->
                IF DOMAIN claude_dir[w] = {} THEN "none"
                ELSE CHOOSE t \in DOMAIN claude_dir[w] : TRUE]
  /\ wmiss = [w \in Workers |-> {}]

\* scan_directories has returned and is called once more; ticks counts the
\* calls that have returned
ScanAgain ==
  /\ cpc = "publish"
  /\ ticks = 0
  /\ ticks' = 1
  /\ cpc' = "scan_finished"
  /\ UNCHANGED <<envVars, fsVars, completed_tasks, failed_tasks, in_progress,
                 help_requests, help_todo, help_cur, scan_i, workerVars>>

ScanNext ==
  \/ ScanFinished
  \/ ScanFailed
  \/ ScanHelp
  \/ OperatorAnswer
  \/ ScanClaimed
  \/ ScanAgain

SpecScan == ScanInit /\ [][ScanNext]_vars

\* ======================================================================
\* Claims
\* ======================================================================
Holders(t) == {w \in Workers : t \in DOMAIN claude_dir[w]}

InTerminal(t) == t \in DOMAIN finished \cup DOMAIN failed \cup DOMAIN help_me

\* C1: a task id never has an entry in two worker-private directories at
\* the same time, in any interleaving of coordinator and worker steps.
C1_AtMostOneClaimed ==
  \A t \in TaskIds : Cardinality(Holders(t)) <= 1

\* C2: when N workers run claim_task against the same Open entry, exactly
\* one rename succeeds; every other worker that tried the entry observed
\* FileNotFoundError and does not hold it; afterwards the entry is out of
\* Open and in exactly one worker-private directory.
C2_ExactlyOneRenameWins ==
  LET entries == DOMAIN open_tasks \cup UNION {DOMAIN claude_dir[w] : w \in Workers}
      returned == \A w \in Workers : wpc[w] # "claim"
  IN  \A t \in entries :
        /\ Cardinality(Holders(t)) <= 1
        /\ (t \in DOMAIN open_tasks) <=> (Holders(t) = {})
        /\ \A w \in Workers :
             t \in wmiss[w] => (w \notin Holders(t) /\ t \notin DOMAIN open_tasks)
        /\ (returned /\ entries = {t}) =>
             /\ Cardinality(Holders(t)) = 1
             /\ \A w \in Workers \ Holders(t) : t \in wmiss[w] /\ wtask[w] = "none"

C2_Witness ==
  /\ \A w \in Workers : wpc[w] # "claim"
  /\ \E t \in TaskIds :
       /\ Cardinality(Holders(t)) = 1
       /\ \E w \in Workers : t \in wmiss[w]
       /\ DOMAIN open_tasks \cup UNION {DOMAIN claude_dir[w] : w \in Workers} = {t}

\* C3: publish_ready_tasks writes an entry for T into Open only when T has
\* no entry in Open and none in Finished, Failed or Help at that moment.
PublishedFresh ==
  cpc \in {"start", "publish"} =>
    \A t \in DOMAIN open_tasks' \ DOMAIN open_tasks : ~InTerminal(t)

C3_PublishOnlyFresh == [][PublishedFresh]_vars

\* C5: get_ready_tasks returns T iff every predecessor of T is completed
\* and T is not already completed, failed, or dispatched (published to Open
\* or claimed by a worker).
C5_ReadyIffNotDispatched ==
  \A t \in TaskIds :
    t \in Range(GetReadyTasks) <=>
      /\ dependencies[t] \subseteq completed_tasks
      /\ t \notin completed_tasks
      /\ t \notin failed_tasks
      /\ t \notin DOMAIN open_tasks
      /\ Holders(t) = {}

\* C10: the scan that follows T's arrival in Finished records T in
\* completed_tasks, and the get_ready_tasks of that tick returns every
\* dependent of T whose other predecessors are completed and which is not
\* itself completed, failed or in progress.
ScanRecordsFinished ==
  (cpc = "scan_finished" /\ cpc' = "scan_failed") =>
    DOMAIN finished \subseteq completed_tasks'

DependentsReady ==
  cpc = "publish" =>
    \A t \in completed_tasks \cap TaskIds : \A d \in dependents[t] \cap TaskIds :
      ( /\ dependencies[d] \ {t} \subseteq completed_tasks
        /\ d \notin completed_tasks \cup failed_tasks \cup DOMAIN in_progress )
      => d \in Range(GetReadyTasks)

C10_CompletionUnlocksDependents ==
  [][ScanRecordsFinished /\ DependentsReady]_vars

C10_Witness ==
  /\ cpc = "stats"
  /\ \E d \in TaskIds :
       /\ dependencies[d] # {}
       /\ dependencies[d] \subseteq completed_tasks
       /\ d \in DOMAIN open_tasks

\* C6: ResourceManager.acquire is all-or-nothing: when it returns False
\* every permit count is what it was before the call; when it returns True
\* every configured resource was taken once per occurrence in the request.
C6_AcquireAllOrNothing ==
  rm.op = "acquire" =>
    /\ rm.ret \in {"True", "False"}
    /\ rm.ret = "False" => rm.locks = rm.pre
    /\ rm.ret = "True" =>
         \A n \in ResourceNames : rm.locks[n] = rm.pre[n] - Count(rm.req, n)

C6_Witness ==
  /\ rm.op = "acquire"
  /\ rm.ret = "False"
  /\ rm.req = <<"ci_runners", "deployment_slot">>
  /\ rm.pre["ci_runners"] > 0
  /\ rm.pre["deployment_slot"] = 0

\* C7: releasing a resource that is not held does not raise, leaves an
\* exclusive resource free with one permit and a shared-limited pool with
\* between zero and its configured capacity of free slots.
C7_IdempotentRelease ==
  rm.op = "release" =>
    /\ rm.ret # "RuntimeError"
    /\ \A n \in ResourceNames :
         /\ rm.locks[n] >= 0
         /\ rm.locks[n] <= ResourceConfig[n].capacity

ScHolders(n) ==
  {t \in Range(sc.running_tasks) : n \in Range(sc.held_resources[t])}

\* C8: in every reachable state of SLAPSCoordinator an exclusive resource
\* is held by at most one running task and a shared-limited resource of
\* capacity N by at most N running tasks; the permits left stay between
\* zero and the capacity.
C8_HoldersWithinCapacity ==
  \A n \in ResourceNames :
    /\ Cardinality(ScHolders(n)) <= ResourceConfig[n].capacity
    /\ sc.locks[n] >= 0
    /\ sc.locks[n] <= ResourceConfig[n].capacity

C8_Witness ==
  /\ Cardinality(ScHolders("deployment_slot")) = 1
  /\ Cardinality(ScHolders("ci_runners")) = CiRunners
  /\ \E u \in TaskIds \ Range(sc.running_tasks) :
       /\ sc.state[u] = "ready"
       /\ "deployment_slot" \in Range(manifest.resources[u])
       /\ "ci_runners" \in Range(manifest.resources[u])

\* C9: a task of SLAPSCoordinator whose state is COMPLETED or FAILED holds
\* no resource permit: every permit acquired on its behalf in launch_task
\* has been released, also when launching raised an exception.
C9_TerminalHoldsNothing ==
  \A t \in TaskIds :
    sc.state[t] \in {"completed", "failed"} =>
      \A n \in ResourceNames : sc.permits[t][n] = 0

\* C4: no task is dispatched before all its prerequisites have completed:
\* a task published to Open by FileBasedSLAPSCoordinator or by
\* DependencyManager has every predecessor id in the completed set and in
\* Finished at that moment, and a task launched by SLAPSCoordinator has
\* every predecessor id in completed_tasks.
DispatchedAfterDeps ==
  /\ \A t \in DOMAIN open_tasks' \ DOMAIN open_tasks :
       /\ cpc \in {"start", "publish"} =>
            /\ dependencies[t] \subseteq completed_tasks
            /\ dependencies[t] \subseteq DOMAIN finished
       /\ dm.pc = "move" => dependencies[t] \subseteq DOMAIN finished
  /\ \A t \in TaskIds :
       sc'.launches[t] > sc.launches[t] =>
         dependencies[t] \subseteq sc'.completed_tasks

C4_DispatchAfterPrerequisites == [][DispatchedAfterDeps]_vars

C4_Witness ==
  \E t \in TaskIds :
    /\ Cardinality(dependencies[t]) = 2
    /\ sc.state[t] = "running"
    /\ sc.launches[t] = 1

\* C11: once a task T1 is recorded as failed, no task that has T1 as a
\* predecessor is in the ready set, is published to Open by the
\* coordinator's publish_ready_tasks, or is launched by SLAPSCoordinator,
\* in any later state.
FailedBlocksDependents ==
  /\ \A t1 \in failed_tasks : \A t2 \in TaskIds :
       t1 \in dependencies[t2] =>
         /\ t2 \notin Range(GetReadyTasks)
         /\ cpc \in {"start", "publish"} =>
              (t2 \in DOMAIN open_tasks' => t2 \in DOMAIN open_tasks)
  /\ \A t1 \in sc.failed_tasks : \A t2 \in TaskIds :
       t1 \in dependencies[t2] =>
         /\ t2 \notin Range(ScGetReadyTasks(sc))
         /\ sc'.launches[t2] = sc.launches[t2]

C11_FailedPrerequisiteBlocks == [][FailedBlocksDependents]_vars

TerminalDirs(t) ==
  {d \in {"finished", "failed", "help_me"} :
     \/ d = "finished" /\ t \in DOMAIN finished
     \/ d = "failed" /\ t \in DOMAIN failed
     \/ d = "help_me" /\ t \in DOMAIN help_me}

\* C12: in every reachable state of the mailbox, the entries of a task id
\* are in at most one of Finished, Failed and Help.
C12_OneTerminalDirectory ==
  \A t \in TaskIds : Cardinality(TerminalDirs(t)) <= 1

\* C13: a task whose entry is in Help gets an entry in Open again only by
\* the operator's 'y' to the coordinator's prompt for that task; otherwise
\* the coordinator never writes the task to Open.
HelpReturnsByApproval ==
  \A t \in DOMAIN help_me :
    (t \notin DOMAIN open_tasks /\ t \in DOMAIN open_tasks') =>
      (cpc = "await_input" /\ help_cur = t /\ t \notin DOMAIN help_me')

C13_HelpReturnsOnlyByApproval == [][HelpReturnsByApproval]_vars

\* C14: once scan_directories has recorded T in in_progress for a worker
\* and that worker keeps the claimed entry without producing a terminal
\* file, T stays in in_progress, is not in the ready set and is not
\* published to Open again by publish_ready_tasks.
HungTaskStaysClaimed ==
  \A t \in DOMAIN in_progress :
    LET w == in_progress[t]
    IN  (wpc[w] = "exec" /\ wtask[w] = t /\ wpc'[w] = "exec") =>
          /\ t \in DOMAIN in_progress'
          /\ t \notin Range(GetReadyTasks)
          /\ cpc \in {"start", "publish"} =>
               (t \in DOMAIN open_tasks' => t \in DOMAIN open_tasks)

AllInFinishedOrFailed ==
  \A t \in TaskIds : t \in DOMAIN finished \cup DOMAIN failed

\* C15: in every run where each task comes to have an entry in Finished
\* or Failed (one of them in Failed included), the loop of
\* FileBasedSLAPSCoordinator.run eventually exits without interrupt.
C15_RunExitsWhenAllTerminal ==
  AllInFinishedOrFailed ~> (cpc = "done")

\* C16: when SLAPSCoordinator.run returns, every task is COMPLETED, FAILED
\* or has a predecessor that is not completed.
C16_ReturnsWithAllTasksSettled ==
  sc.pc = "done" =>
    \A t \in TaskIds :
      \/ sc.state[t] \in {"completed", "failed"}
      \/ ~(dependencies[t] \subseteq sc.completed_tasks)

Roots == {t \in TaskIds : dependencies[t] = {}}

\* C17: with workers that keep claiming and move every claimed task to
\* Finished, the first ready set is exactly the tasks without
\* predecessors, a task is in the ready set once its last predecessor is
\* completed (unless it is completed, failed or in progress itself), and
\* eventually completed_tasks is the set of all tasks, the ready set is
\* empty and run() has left its loop.
C17_EndToEndProgress ==
  /\ [](cpc = "start" => Range(GetReadyTasks) = Roots)
  /\ [](\A t \in TaskIds :
          (/\ dependencies[t] \subseteq completed_tasks
           /\ t \notin completed_tasks \cup failed_tasks \cup DOMAIN in_progress)
          => t \in Range(GetReadyTasks))
  /\ <>[](completed_tasks = TaskIds /\ GetReadyTasks = <<>> /\ cpc = "done")

C17_Witness ==
  /\ manifest = Diamond
  /\ completed_tasks = {"A", "B", "C"}
  /\ GetReadyTasks = <<>>
  /\ cpc = "done"

CompletionFields == {"completed_at", "completed_by", "completion_summary"}

\* the claim keeps the published entry: what the rename puts into the
\* worker's directory is the entry that was in Open
ClaimKeepsEntry ==
  \A w \in Workers : \A t \in DOMAIN claude_dir'[w] \ DOMAIN claude_dir[w] :
    t \in DOMAIN open_tasks /\ claude_dir'[w][t] = open_tasks[t]

\* the move to Finished keeps every field of the claimed entry and adds
\* the completion annotation
FinishKeepsEntry ==
  \A w \in Workers :
    (wpc[w] = "exec" /\ wpc'[w] = "unlink" /\ finished' # finished) =>
      LET t == wtask[w]
          entry == claude_dir[w][t]
          done == finished'[t]
      IN  /\ done.task_id = entry.task_id
          /\ done.task = entry.task
          /\ done.dependencies_completed = entry.dependencies_completed
          /\ done.retry_count = entry.retry_count
          /\ done.fields = entry.fields \cup CompletionFields
          /\ DOMAIN done = DOMAIN entry

\* an entry published by publish_ready_tasks is the one create_task_file
\* builds
PublishCreatesEntry ==
  cpc \in {"start", "publish"} =>
    \A t \in DOMAIN open_tasks' \ DOMAIN open_tasks :
      open_tasks'[t] = CreateTaskFile(t) /\ open_tasks'[t].task_id = t

\* C18: an entry created by create_task_file and published to Open, then
\* claimed and moved to Finished, has the task_id, the task payload and
\* every other original field of the published entry; the worker only adds
\* completed_at, completed_by and completion_summary.
C18_RoundTripKeepsEntry ==
  [][PublishCreatesEntry /\ ClaimKeepsEntry /\ FinishKeepsEntry]_vars

C18_Witness ==
  /\ "C" \in DOMAIN finished
  /\ finished["C"] = [task_id |-> "C", task |-> "C",
                      dependencies_completed |-> {"A", "B"},
                      fields |-> CompletionFields, retry_count |-> 0]

\* C19: a coordinator started over an existing mailbox tree rebuilds the
\* completed and failed sets from Finished and Failed before it publishes
\* anything, so that it never publishes a task that has an entry in
\* Finished or Failed.
RestartPublishesFresh ==
  (runs > 1 /\ cpc \in {"start", "publish"}) =>
    /\ DOMAIN finished \subseteq completed_tasks
    /\ DOMAIN failed \subseteq failed_tasks
    /\ \A t \in DOMAIN open_tasks' \ DOMAIN open_tasks :
         t \notin DOMAIN finished \cup DOMAIN failed

C19_RestartRebuildsBeforePublish == [][RestartPublishesFresh]_vars

UnknownEdge ==
  \E e \in manifest.edges : e[1] \notin TaskIds \/ e[2] \notin TaskIds

\* C20: loading a manifest in which an edge names an undeclared task id,
\* as 'from' or as 'to', fails: no graph is built from it, so neither
\* coordinator gets past its construction with such a manifest.
C20_UnknownEdgeFailsLoad ==
  UnknownEdge =>
    /\ (sc.pc = "off" /\ dm.pc = "off") => cpc = "start"
    /\ sc.pc # "off" => sc.pc = "start"

\* the edges of the manifest whose two ends are declared tasks
KnownEdges ==
  {d \in manifest.edges : d[1] \in TaskIds /\ d[2] \in TaskIds}

\* C21: an edge that names an undeclared task id, as 'from' or as 'to', is
\* ignored: the predecessor and successor mappings built at load are those
\* of the manifest without that edge, and so is the readiness of every
\* task in every state.
C21_UnknownEdgeIgnored ==
  /\ \A t \in TaskIds :
       /\ dependencies[t] = {e[1] : e \in {d \in KnownEdges : d[2] = t}}
       /\ dependents[t] = {e[2] : e \in {d \in KnownEdges : d[1] = t}}
  /\ \A t \in TaskIds :
       IsReady(t) <=>
         /\ IsReady_NoDeps(t)
         /\ \A e \in KnownEdges : e[2] = t => e[1] \in completed_tasks

\* C22: the coordinator loop never blocks indefinitely: whatever the
\* workers and the operator do, the coordinator gets past the help prompt,
\* and an entry placed in Finished is eventually recorded in
\* completed_tasks, also while a help request is pending.
C22_LoopNeverBlocks ==
  /\ (cpc = "await_input") ~> (cpc # "await_input")
  /\ \A t \in {"A", "B"} :
       (t \in DOMAIN finished) ~> (t \in completed_tasks)

\* C23: a task whose resource acquisition failed is requeued: whenever an
\* iteration of run() has ended, every task in READY state is in the
\* launch queue or in the blocked list, so that a later iteration attempts
\* its launch again; this holds on every path that calls launch_task,
\* the trigger from complete_task included.
C23_AcquireFailureRequeued ==
  sc.pc \in {"sleep", "done", "stopped"} =>
    \A t \in TaskIds :
      sc.state[t] = "ready" =>
        t \in Range(sc.launch_queue) \cup Range(sc.blocked_tasks)

\* publish_ready_tasks of the loop has run: every task that was ready with
\* all of its (at least one) predecessors completed is in Open afterwards
NewlyReadyPublished ==
  (cpc = "publish" /\ cpc' = "stats") =>
    \A t \in TaskIds :
      (IsReady(t) /\ dependencies[t] # {}) => t \in DOMAIN open_tasks'

\* C24: rolling frontier: a task whose predecessors are all completed is
\* published to Open on the next tick, also when other, unrelated tasks
\* are still sitting in Open unclaimed or are still being executed.
C24_RollingFrontier == [][NewlyReadyPublished]_vars

\* a step of the coordinator process leaves the worker directories and the
\* two terminal directories as they are
CoordinatorLeavesClaimed ==
  (CoordinatorStep \/ StatsAndSleepOn \/ Restart) =>
    UNCHANGED <<claude_dir, finished, failed>>

ScanRecordsSeen ==
  /\ IF cpc = "scan_finished" /\ cpc' = "scan_failed"
     THEN completed_tasks' = completed_tasks \cup DOMAIN finished
     ELSE runs' = runs => completed_tasks' = completed_tasks
  /\ IF cpc = "scan_failed" /\ cpc' = "scan_help"
     THEN failed_tasks' = failed_tasks \cup DOMAIN failed
     ELSE runs' = runs => failed_tasks' = failed_tasks
  /\ runs' = runs =>
       \A t \in DOMAIN in_progress :
         t \notin DOMAIN in_progress' <=>
           t \in (completed_tasks' \ completed_tasks) \cup
                 (failed_tasks' \ failed_tasks)
  /\ completed_tasks \subseteq DOMAIN finished
  /\ failed_tasks \subseteq DOMAIN failed

\* C26: after every scan_directories completed_tasks holds exactly the ids
\* seen in Finished in this or an earlier scan and failed_tasks those seen
\* in Failed; both sets only grow, and an id is recorded, and its
\* in_progress entry removed, once, on the first scan that sees it.
C26_ScanRecordsSeen == [][ScanRecordsSeen]_vars

\* a scan has recorded a finished task that it had seen claimed, and keeps
\* the in_progress entry of a task that is still claimed
C26_Witness ==
  /\ cpc = "scan_failed"
  /\ ticks >= 1
  /\ completed_tasks = DOMAIN finished
  /\ completed_tasks # {}
  /\ \E u \in DOMAIN in_progress : u \notin completed_tasks

\* C27: a lost claim race is not fatal: after a FileNotFoundError the
\* worker goes on to the next entry of its listing in the same pass; when
\* at least as many entries are in Open as workers claim concurrently,
\* every worker, also one that lost a race, ends the pass holding an entry
\* nobody else holds; a worker that claims nothing returns None, holds
\* nothing and is back at the poll.
C27_LostRaceNotFatal ==
  LET entries == DOMAIN open_tasks \cup UNION {DOMAIN claude_dir[w] : w \in Workers}
      returned == \A w \in Workers : wpc[w] # "claim"
  IN  /\ \A w \in Workers :
           /\ wpc[w] \in {"claim", "exec", "idle"}
           /\ wpc[w] = "claim" => wlist[w] # {} /\ wtask[w] = "none"
           /\ wpc[w] = "idle" => wtask[w] = "none" /\ DOMAIN claude_dir[w] = {}
           /\ wpc[w] = "exec" => DOMAIN claude_dir[w] = {wtask[w]}
      /\ (returned /\ Cardinality(entries) >= Cardinality(Workers)) =>
           /\ \A w \in Workers : wpc[w] = "exec"
           /\ \A w1, w2 \in Workers : w1 # w2 => wtask[w1] # wtask[w2]

\* every worker holds an entry and one of them lost a race for an entry
\* that another worker holds
C27_Witness ==
  /\ \A w \in Workers : wpc[w] = "exec"
  /\ \E w1, w2 \in Workers : w1 # w2 /\ wtask[w2] \in wmiss[w1]

\* C28: instance throttling: running_tasks never holds more tasks than
\* max_claude_instances, and with the limit reached launch_task returns
\* False for every task and leaves the coordinator as it was (no process,
\* no resource acquired, task state unchanged).
C28_InstanceLimit ==
  /\ Len(sc.running_tasks) <= sc.max_claude_instances
  /\ Len(sc.running_tasks) >= sc.max_claude_instances =>
       \A t \in TaskIds : \A o \in Outcomes :
         LaunchTask(sc, t, o) = [s |-> sc, ok |-> FALSE]

\* an iteration without launch has ended with the limit reached, below
\* the number of tasks, and a PENDING task waiting in the blocked list
C28_Witness ==
  /\ sc.pc = "sleep"
  /\ ~sc.cooldown
  /\ Len(sc.running_tasks) = sc.max_claude_instances
  /\ sc.max_claude_instances < Cardinality(TaskIds)
  /\ \E i \in DOMAIN sc.blocked_tasks : sc.state[sc.blocked_tasks[i]] = "pending"

\* u has t among its direct or indirect predecessors
RECURSIVE DependsOn(_, _)
DependsOn(u, t) ==
  \/ t \in dependencies[u]
  \/ \E v \in dependencies[u] \cap TaskIds : DependsOn(v, t)

\* the permits of resource n held by the first tasks of running_tasks
RECURSIVE RunningHeld(_, _, _)
RunningHeld(s, n, i) ==
  IF i > Len(s.running_tasks) THEN 0
  ELSE s.permits[s.running_tasks[i]][n] + RunningHeld(s, n, i + 1)

\* what is free once every running task has ended and released
IdleLocks(s) ==
  [n \in ResourceNames |-> s.locks[n] + RunningHeld(s, n, 1)]

\* the resources of u can be acquired once the running tasks have ended
CanStillRun(s, u) ==
  Acquire(IdleLocks(s), manifest.resources[u]).ret = "True"

\* the step in which t is recorded as failed: t is FAILED, run() goes on,
\* and every task that does not depend on t can still get its resources
FailureIsolated ==
  \A t \in sc'.failed_tasks \ sc.failed_tasks :
    /\ sc'.state[t] = "failed"
    /\ sc'.pc # "crashed"
    /\ \A u \in TaskIds \ {t} : ~DependsOn(u, t) => CanStillRun(sc', u)

\* C29: per-task failures are isolated in SLAPSCoordinator: a task whose
\* process exits non-zero, or whose launch raises, is recorded in
\* failed_tasks with state FAILED, the coordinator loop keeps running, and
\* every other task that does not depend on it is still launched and can
\* complete.
C29_FailureIsolated == [][FailureIsolated]_vars

\* the answer to the prompt for help_cur, and the prompts of later scans
HelpLoop ==
  /\ (cpc = "await_input" /\ cpc' = "scan_help") =>
       \/ /\ open_tasks' =
               Put(open_tasks, help_cur,
                   [help_me[help_cur] EXCEPT
                      !.fields = @ \cup {"updated_plan", "retry_count"},
                      !.retry_count = @ + 1])
          /\ help_me' = Del(help_me, help_cur)
          /\ help_requests' = help_requests \ {help_cur}
       \/ /\ UNCHANGED <<open_tasks, help_me>>
          /\ help_cur \in help_requests'
  /\ (cpc # "await_input" /\ cpc' = "await_input") =>
       /\ help_cur' \in DOMAIN help_me
       /\ help_cur' \notin help_requests
  /\ runs' = runs =>
       \A t \in help_requests :
         t \in help_requests' \/ (cpc = "await_input" /\ t \notin DOMAIN help_me')

\* C30: the manual help loop of scan_directories: on approval the entry is
\* written to Open with the updated plan attached and retry_count
\* increased by exactly one, it is removed from Help and its id from
\* help_requests; without approval the entry stays in Help, Open is
\* unchanged, and the operator is not prompted again for that entry on
\* later scans.
C30_ManualHelpLoop == [][HelpLoop]_vars

\* an entry that was approved once has come back to Help and the operator
\* has declined it: it stays in Help and in help_requests
C30_Witness ==
  /\ cpc = "scan_help"
  /\ \E t \in help_requests :
       /\ t \in DOMAIN help_me
       /\ help_me[t].retry_count = 1
       /\ "updated_plan" \in help_me[t].fields

\* a step of run() starts no process for a task that has been started
\* before, or that is RUNNING, COMPLETED or FAILED
LaunchedOnce ==
  \A t \in TaskIds :
    sc'.launches[t] # sc.launches[t] =>
      /\ sc.launches[t] = 0
      /\ sc'.launches[t] = 1
      /\ sc.state[t] \notin {"running", "completed", "failed"}

\* C31: SLAPSCoordinator launches each task at most once: with any pattern
\* of throttling refusals and resource contention no task's process is
\* started a second time, and a task that is RUNNING, COMPLETED or FAILED
\* is never passed through launch_task into RUNNING again.
C31_LaunchedOnce == [][LaunchedOnce]_vars

\* C32: ResourceManager.acquire returns True whenever every resource named
\* in the request is available before the call (an exclusive resource
\* unlocked, a shared-limited pool with at least one free slot), also for
\* a request that names the same resource more than once.
C32_AcquireWhenAvailable ==
  (rm.op = "acquire" /\
   \A n \in Range(rm.req) \cap ResourceNames : rm.pre[n] >= 1) =>
     rm.ret = "True"

\* C33: completed and failed are disjoint: in every reachable state of
\* SLAPSCoordinator and of FileBasedSLAPSCoordinator, with any interleaving
\* of workers, no task id is in both completed_tasks and failed_tasks.
C33_CompletedFailedDisjoint ==
  /\ completed_tasks \cap failed_tasks = {}
  /\ sc.completed_tasks \cap sc.failed_tasks = {}

\* C34: after every scan_directories the in_progress map holds no task
\* that is in completed_tasks or failed_tasks, whenever the worker writes
\* its terminal file and removes its claimed file; the stats snapshot then
\* has completed + failed + in_progress + ready <= total_tasks.
C34_InProgressExcludesTerminal ==
  cpc \in {"publish", "stats"} =>
    /\ DOMAIN in_progress \cap (completed_tasks \cup failed_tasks) = {}
    /\ WriteStats.completed + WriteStats.failed + WriteStats.in_progress
         + WriteStats.ready <= WriteStats.total_tasks

\* C35: the counters of SLAPSCoordinator agree with its sets in every
\* reachable state: tasks_completed is the size of completed_tasks,
\* tasks_failed the size of failed_tasks, and their sum never exceeds
\* total_tasks.
C35_CountersAgree ==
  /\ sc.tasks_completed = Cardinality(sc.completed_tasks)
  /\ sc.tasks_failed = Cardinality(sc.failed_tasks)
  /\ sc.tasks_completed + sc.tasks_failed <= Cardinality(TaskIds)

\* C36: with no help entry republished by the operator, the Open directory
\* never holds more than 5 entries at the same time, in any interleaving
\* of publish_ready_tasks, scan_directories and worker claims.
C36_OpenAtMostFive ==
  Cardinality(DOMAIN open_tasks) <= PublishLimit

\* one step while DependencyManager runs: a task that left Staged does not
\* come back, an entry appears in Open only by the move of a staged task
\* whose dependency ids all have an entry in Finished, a task with a
\* dependency id missing from Finished is still staged, and monitor_loop
\* does not end while a task is staged
DmMovesOnce ==
  dm.pc \notin {"off", "start"} =>
    /\ dm'.staged \subseteq dm.staged
    /\ \A t \in dm.staged \ dm'.staged :
         /\ dependencies[t] \subseteq DOMAIN finished
         /\ t \notin DOMAIN open_tasks
         /\ t \in DOMAIN open_tasks'
    /\ \A t \in DOMAIN open_tasks' \ DOMAIN open_tasks : t \in dm.staged \ dm'.staged
    /\ \A t \in TaskIds :
         ~(dependencies[t] \subseteq DOMAIN finished) => t \in dm.staged
    /\ dm.staged # {} => dm'.pc # "done"

\* C37: DependencyManager moves each staged task from Staged to Open at
\* most once after stage_all_tasks, and only when every declared
\* dependency id of the task has an entry in Finished; a task one of whose
\* dependency ids does not reach Finished (it failed, or the id names no
\* task) stays in Staged and monitor_loop does not terminate.
C37_DmMovesOnce == [][DmMovesOnce]_vars

\* B was moved after A finished and has failed; C, which depends on B, is
\* still staged and the monitor loop is running
C37_Witness ==
  /\ manifest = Chain
  /\ "A" \in DOMAIN finished
  /\ "B" \in DOMAIN failed
  /\ "B" \notin dm.staged
  /\ "C" \in dm.staged
  /\ dm.pc = "list"

\* C38: a worker holds at most one claimed task at a time: in every
\* reachable state each worker-private directory contains at most one task
\* entry.
C38_OneClaimedPerWorker ==
  \A w \in Workers : Cardinality(DOMAIN claude_dir[w]) <= 1

\* C39: scan_directories is idempotent with respect to an unchanged mailbox:
\* once it has run, no step of a second run over the same files, with no
\* operator approval, changes completed_tasks, failed_tasks, in_progress or
\* help_requests.
ScanIdempotent ==
  ticks >= 1 =>
    UNCHANGED <<completed_tasks, failed_tasks, in_progress, help_requests>>

C39_ScanIdempotent == [][ScanIdempotent]_vars

\* the second run has returned over a mailbox in which A.json is in
\* finished-tasks, in help-me and in the directory of claude-001, each
\* recorded by the coordinator
C39_Witness ==
  /\ ticks = 1
  /\ cpc = "publish"
  /\ "A" \in DOMAIN finished /\ completed_tasks = {"A"}
  /\ "A" \in DOMAIN help_me /\ help_requests = {"A"}
  /\ "A" \in DOMAIN claude_dir[1] /\ "A" \in DOMAIN in_progress

====
